---- MODULE Spec2Model ----
(***************************************************************************)
(* Voice Journey of WritersVoice: the progress store (useProgressStore),   *)
(* the phase / unlock utilities (utils/phaseUnlock.ts), and the prompts    *)
(* store (usePromptsStore) with the prompt library (constants/prompts.ts). *)
(*                                                                         *)
(* The wall clock is the pair (now, minuteOfDay): the local calendar day   *)
(* and the minute of that day.  getDaysSinceStart strips both the start    *)
(* date and "now" to local midnight before subtracting, so the day index   *)
(* is all the phase logic reads.  Date.now() and the ISO date strings are  *)
(* in UTC: utcOffset is the offset of the local zone in hours, and an      *)
(* instant is counted in minutes of UTC.  A nullable value is a sequence:  *)
(* <<>> for null, <<v>> for the value v.                                   *)
(***************************************************************************)
EXTENDS Integers, Sequences, FiniteSets, TLC

\* ------------------------------------------------------------------ bounds

\* Last day the wall clock reaches in the phase specifications.
MaxJourneyDay == 85
\* Last day the wall clock reaches in the specifications that keep the ledger.
MaxDay == 2
\* Last day on which a journey is started in the phase specifications.
MaxStartDay == 1
\* Entries each ledger log may hold.
MaxLog == 1
\* Largest elapsedDays / week handed to the pure utilities.
MaxElapsed == 100
MaxWeek == 14
\* Stone sessions recorded in the stone-practice specification.
MaxStone == 3
\* Records the two logs of the writing-ledger specification hold together.
MaxRecords == 2
\* The prompt specification: minutes between two looks at the clock, the
\* last minute of the run, and the prompts dismissed in a run.
PromptStep == 5
MaxMinute == 15
MaxAnswered == 3
\* Last day the wall clock reaches in the journey-week specification.
MaxWeekDay == 8
\* Prompts dismissed in the specification of the daily reset.
MaxDailyAnswered == 1
\* Records appended in the specification of the journey reset.
MaxResetRecords == 3
\* The specification of prompt delivery: the last minute of the run, and
\* the clock read every QuarterHour minutes.
QuarterHour == 15
MaxDeliveryMinute == 105
\* The displayed prompt: the time it has been on the screen is counted in
\* steps of DisplayStep milliseconds up to MaxDisplayedFor.
DisplayStep == 1000
MaxDisplayedFor == 3000

\* ------------------------------------------------------------------ inputs

Phases == {"stone", "transfer", "application", "autonomous"}

Features ==
  {"textEditor", "multipleChapters", "fullChapterManagement",
   "reflectionWorkspace", "communityFeatures", "fullEditor", "exportFeatures"}

\* Days and features the dev panel is used with (it offers days 1, 7, 8, 14,
\* 21, 22, 49, 70, 84 and every feature).
ForceDays == {1, 8, 22, 84}
ForceFeatures == {"textEditor", "exportFeatures"}
\* Days of the dev panel that put the journey in weeks 1, 2, 4, 7 and 10.
PromptDays == {1, 8, 22, 49, 70}
\* Of these, the days of week 2 and week 10.
SessionDays == {8, 70}

\* Arguments the callers pass to the ledger operations.
Durations == {300}
Reflections == {<<>>, <<"still">>}
WordCounts == {0, 120}
Scores == {8}
\* Scores recorded in the journey-week specification.
WeekScores == {6, 9}
SessionIds == 1..(MaxLog + 1)
Books == {"b1"}
\* UTC offsets of the local zone, in hours: west of, at and east of Greenwich.
Offsets == {-5, 0, 5}

None == <<>>
Some(x) == <<x>>

\* ------------------------------------------------------------------ state

VARIABLES
  now,                     \* wall clock: the local calendar day
  minuteOfDay,             \* wall clock: the minute of the local day
  utcOffset,               \* local time minus UTC, in hours
  phase, startDate, hasCompletedOnboarding,
  stoneSessionsLog, dailyStoneGoal, writingSessionsLog, resonanceScores,
  unlocked, migrationChoice, archivedBooks, devModeEnabled,
  nextId,                  \* generateId: the next fresh id
  lastCall,                \* the latest store call and what it returned
  utilCall, utilRet,       \* a direct call of a phaseUnlock utility and its result
  \* usePromptsStore
  currentPrompt, promptStartTime, lastPromptTime, nextPromptTime, promptInterval,
  writingSessionStartTime, isWritingSessionActive, promptsShownToday,
  totalPromptsAnswered, promptsAnsweredThisSession, promptsEnabled,
  lastResetDate,           \* _lastResetDate
  \* the EngagementPrompt component on the screen
  canDismiss,              \* its state canDismiss
  displayedFor             \* milliseconds since it was mounted, up to MaxDisplayedFor

clock == <<now, minuteOfDay, utcOffset>>

storeVars ==
  <<phase, startDate, hasCompletedOnboarding, stoneSessionsLog, dailyStoneGoal,
    writingSessionsLog, resonanceScores, unlocked, migrationChoice,
    archivedBooks, devModeEnabled>>

utilVars == <<utilCall, utilRet>>

promptVars ==
  <<currentPrompt, promptStartTime, lastPromptTime, nextPromptTime, promptInterval,
    writingSessionStartTime, isWritingSessionActive, promptsShownToday,
    totalPromptsAnswered, promptsAnsweredThisSession, promptsEnabled,
    lastResetDate>>

viewVars == <<canDismiss, displayedFor>>

vars == <<clock, storeVars, nextId, lastCall, utilVars, promptVars, viewVars>>

\* ------------------------------------------------------------------ utils/phaseUnlock.ts

PhaseRank(p) ==
  CASE p = "stone" -> 0
    [] p = "transfer" -> 1
    [] p = "application" -> 2
    [] p = "autonomous" -> 3

\* Math.floor(daysSinceStart / 7) + 1
getCurrentWeek(daysSinceStart) == (daysSinceStart \div 7) + 1

\* getDayOfWeek without the + 1: days counted from 0.
getDayOfWeekZeroBased(daysSinceStart) == daysSinceStart % 7

\* (daysSinceStart % 7) + 1; the remainder of JavaScript and the modulus of
\* TLA+ agree on daysSinceStart >= 0, the values the callers pass.
getDayOfWeek(daysSinceStart) == (daysSinceStart % 7) + 1

\* startDate null -> 0; else whole days between the two local midnights
\* (every calendar day taken as 24 hours long).
getDaysSinceStart(sd, today) == IF sd = None THEN 0 ELSE today - sd[1]

\* calculatePhase with the first boundary compared with <= instead of <.
calculatePhaseLateTransfer(daysSinceStart) ==
  IF daysSinceStart <= 7 THEN "stone"
  ELSE IF daysSinceStart < 21 THEN "transfer"
  ELSE IF daysSinceStart < 84 THEN "application"
  ELSE "autonomous"

calculatePhase(daysSinceStart) ==
  IF daysSinceStart < 7 THEN "stone"
  ELSE IF daysSinceStart < 21 THEN "transfer"
  ELSE IF daysSinceStart < 84 THEN "application"
  ELSE "autonomous"

\* calculateUnlocks following the cloud schedule for the reflection workspace (week 5).
calculateUnlocksCloudSchedule(daysSinceStart) ==
  LET week == getCurrentWeek(daysSinceStart) IN
  [textEditor |-> week >= 2,
   multipleChapters |-> week >= 4,
   fullChapterManagement |-> week >= 7,
   reflectionWorkspace |-> week >= 5,
   communityFeatures |-> week >= 10,
   fullEditor |-> week >= 10,
   exportFeatures |-> week >= 10]

calculateUnlocks(daysSinceStart) ==
  LET week == getCurrentWeek(daysSinceStart) IN
  [textEditor |-> week >= 2,
   multipleChapters |-> week >= 4,
   fullChapterManagement |-> week >= 7,
   reflectionWorkspace |-> week >= 7,
   communityFeatures |-> week >= 10,
   fullEditor |-> week >= 10,
   exportFeatures |-> week >= 10]

\* getMaxChapters: null stands for no limit.
getMaxChapters(week) ==
  IF week < 4 THEN Some(1)
  ELSE IF week < 7 THEN Some(5)
  ELSE None

\* getPromptInterval with the last boundary compared with < instead of <=.
getPromptIntervalEarlyStop(week) ==
  IF week < 2 THEN None
  ELSE IF week <= 3 THEN Some(5)
  ELSE IF week <= 6 THEN Some(10)
  ELSE IF week < 9 THEN Some(15)
  ELSE None

getPromptInterval(week) ==
  IF week < 2 THEN None
  ELSE IF week <= 3 THEN Some(5)
  ELSE IF week <= 6 THEN Some(10)
  ELSE IF week <= 9 THEN Some(15)
  ELSE None

FeatureUnlock(f, d, i) == [feature |-> f, description |-> d, icon |-> i]

\* getNewUnlocks that backfills: a threshold fires whenever it lies between the two weeks.
getNewUnlocksBackfill(previousWeek, currentWeek) ==
  (IF previousWeek < 2 /\ currentWeek >= 2
     THEN <<FeatureUnlock("Text Editor", "You can now write in the app", "edit")>>
     ELSE <<>>)
  \o
  (IF previousWeek < 4 /\ currentWeek >= 4
     THEN <<FeatureUnlock("Multiple Chapters", "Create up to 5 chapters", "layers")>>
     ELSE <<>>)
  \o
  (IF previousWeek < 7 /\ currentWeek >= 7
     THEN <<FeatureUnlock("Unlimited Chapters", "No more chapter limits", "infinity"),
            FeatureUnlock("Reflection Workspace", "A dedicated space for processing", "book-open")>>
     ELSE <<>>)
  \o
  (IF previousWeek < 10 /\ currentWeek >= 10
     THEN <<FeatureUnlock("Community Sharing", "Share with the community", "users"),
            FeatureUnlock("Export & Publishing", "Export your work to various formats", "download")>>
     ELSE <<>>)
  \o
  (IF previousWeek < 13 /\ currentWeek >= 13
     THEN <<FeatureUnlock("Full Autonomy",
                          "All features unlocked. Your voice journey is complete!", "award")>>
     ELSE <<>>)

getNewUnlocks(previousWeek, currentWeek) ==
  (IF previousWeek = 1 /\ currentWeek = 2
     THEN <<FeatureUnlock("Text Editor", "You can now write in the app", "edit")>>
     ELSE <<>>)
  \o
  (IF previousWeek = 3 /\ currentWeek = 4
     THEN <<FeatureUnlock("Multiple Chapters", "Create up to 5 chapters", "layers")>>
     ELSE <<>>)
  \o
  (IF previousWeek = 6 /\ currentWeek = 7
     THEN <<FeatureUnlock("Unlimited Chapters", "No more chapter limits", "infinity"),
            FeatureUnlock("Reflection Workspace", "A dedicated space for processing", "book-open")>>
     ELSE <<>>)
  \o
  (IF previousWeek = 9 /\ currentWeek = 10
     THEN <<FeatureUnlock("Community Sharing", "Share with the community", "users"),
            FeatureUnlock("Export & Publishing", "Export your work to various formats", "download")>>
     ELSE <<>>)
  \o
  (IF previousWeek = 12 /\ currentWeek = 13
     THEN <<FeatureUnlock("Full Autonomy",
                          "All features unlocked. Your voice journey is complete!", "award")>>
     ELSE <<>>)

\* ------------------------------------------------------------------ Date
\* Instants are minutes of UTC; day 0, minute 0 of the local clock in zone 0
\* is instant 0.  Every calendar day is taken as 24 hours long.

MinutesPerDay == 1440

\* Date.now()
DateNow == (now * MinutesPerDay + minuteOfDay) - utcOffset * 60

\* toISOString().split('T')[0]: the calendar date of an instant in UTC.
IsoDate(instant) == instant \div MinutesPerDay

\* new Date('YYYY-MM-DD'): a date-only string is read as midnight UTC.
ParseDate(date) == date * MinutesPerDay

\* The instant of local midnight of a local calendar day (setHours(0, 0, 0, 0)).
LocalMidnight(day) == day * MinutesPerDay - utcOffset * 60

\* The local calendar day of an instant.
LocalDay(instant) == (instant + utcOffset * 60) \div MinutesPerDay

\* getToday(): the date part of new Date().toISOString(), a UTC date.
getToday == IsoDate(DateNow)

\* ------------------------------------------------------------------ store: initial state

DEFAULT_UNLOCKS ==
  [textEditor |-> FALSE,
   multipleChapters |-> FALSE,
   fullChapterManagement |-> FALSE,
   reflectionWorkspace |-> FALSE,
   communityFeatures |-> FALSE,
   fullEditor |-> FALSE,
   exportFeatures |-> FALSE]

ALL_UNLOCKS == [f \in Features |-> TRUE]

\* Nothing to tell of the latest call, or the clock has moved since.
NoCall == [op |-> "none", ret |-> <<>>, again |-> FALSE]

\* What a call leaves in lastCall: the value it returned (for endWritingSession,
\* which returns none, the id it was given); `again` tells that the step before
\* it was a call of the same operation.
Called(op, ret) == [op |-> op, ret |-> ret, again |-> lastCall.op = op]

NoUtil == [fn |-> "none", args |-> <<>>]

\* The prompts store as created.
InitPrompts ==
  /\ currentPrompt = None
  /\ promptStartTime = None
  /\ lastPromptTime = None
  /\ nextPromptTime = None
  /\ promptInterval = 5
  /\ writingSessionStartTime = None
  /\ isWritingSessionActive = FALSE
  /\ promptsShownToday = <<>>
  /\ totalPromptsAnswered = 0
  /\ promptsAnsweredThisSession = 0
  /\ promptsEnabled = TRUE
  /\ lastResetDate = getToday

\* The stores are created at local midnight of day 0 in the zone `offset`.
InitIn(offset) ==
  /\ now = 0
  /\ minuteOfDay = 0
  /\ utcOffset = offset
  /\ phase = "stone"
  /\ startDate = None
  /\ hasCompletedOnboarding = FALSE
  /\ stoneSessionsLog = <<>>
  /\ dailyStoneGoal = 2
  /\ writingSessionsLog = <<>>
  /\ resonanceScores = <<>>
  /\ unlocked = DEFAULT_UNLOCKS
  /\ migrationChoice = None
  /\ archivedBooks = <<>>
  /\ devModeEnabled = FALSE
  /\ nextId = 1
  /\ lastCall = NoCall
  /\ utilCall = NoUtil
  /\ utilRet = <<>>
  /\ InitPrompts
  /\ canDismiss = FALSE
  /\ displayedFor = 0

Init == InitIn(0)

\* The same in any of the zones.
InitAnyZone == \E offset \in Offsets : InitIn(offset)

\* ------------------------------------------------------------------ store: journey lifecycle

ledgerVars == <<stoneSessionsLog, writingSessionsLog, resonanceScores, nextId>>

startJourney ==
  /\ startDate' = Some(now)
  /\ phase' = "stone"
  /\ unlocked' = DEFAULT_UNLOCKS
  /\ hasCompletedOnboarding' = TRUE
  /\ lastCall' = NoCall
  /\ UNCHANGED <<clock, viewVars, ledgerVars, dailyStoneGoal, migrationChoice, archivedBooks,
                 devModeEnabled, utilVars, promptVars>>

\* migrationChoice.timestamp is left out: nothing reads it.
skipJourney ==
  /\ phase' = "autonomous"
  /\ hasCompletedOnboarding' = TRUE
  /\ migrationChoice' = Some([choice |-> "skip", previousDataPreserved |-> TRUE])
  /\ unlocked' = ALL_UNLOCKS
  /\ lastCall' = NoCall
  /\ UNCHANGED <<clock, viewVars, startDate, ledgerVars, dailyStoneGoal, archivedBooks,
                 devModeEnabled, utilVars, promptVars>>

\* resetJourney that clears the dev override too.
resetJourneyClearingOverride ==
  /\ phase' = "stone"
  /\ startDate' = None
  /\ hasCompletedOnboarding' = FALSE
  /\ stoneSessionsLog' = <<>>
  /\ writingSessionsLog' = <<>>
  /\ resonanceScores' = <<>>
  /\ unlocked' = DEFAULT_UNLOCKS
  /\ migrationChoice' = None
  /\ archivedBooks' = <<>>
  /\ devModeEnabled' = FALSE
  /\ lastCall' = NoCall
  /\ UNCHANGED <<clock, viewVars, dailyStoneGoal, nextId, utilVars, promptVars>>

resetJourney ==
  /\ phase' = "stone"
  /\ startDate' = None
  /\ hasCompletedOnboarding' = FALSE
  /\ stoneSessionsLog' = <<>>
  /\ writingSessionsLog' = <<>>
  /\ resonanceScores' = <<>>
  /\ unlocked' = DEFAULT_UNLOCKS
  /\ migrationChoice' = None
  /\ archivedBooks' = <<>>
  /\ lastCall' = NoCall
  /\ UNCHANGED <<clock, viewVars, dailyStoneGoal, devModeEnabled, nextId, utilVars, promptVars>>

completeOnboarding ==
  /\ hasCompletedOnboarding' = TRUE
  /\ startDate' = IF startDate = None THEN Some(now) ELSE startDate
  /\ lastCall' = NoCall
  /\ UNCHANGED <<clock, viewVars, phase, ledgerVars, dailyStoneGoal, unlocked, migrationChoice,
                 archivedBooks, devModeEnabled, utilVars, promptVars>>

\* ------------------------------------------------------------------ store: session ledger

completeStoneSession(duration, reflection) ==
  /\ stoneSessionsLog' = Append(stoneSessionsLog,
       [id |-> nextId, date |-> getToday, timestamp |-> DateNow, duration |-> duration,
        completed |-> TRUE, reflection |-> reflection])
  /\ nextId' = nextId + 1
  /\ lastCall' = NoCall
  /\ UNCHANGED <<clock, viewVars, phase, startDate, hasCompletedOnboarding, dailyStoneGoal,
                 writingSessionsLog, resonanceScores, unlocked, migrationChoice,
                 archivedBooks, devModeEnabled, utilVars, promptVars>>

getStoneSessionsToday ==
  Cardinality({i \in 1..Len(stoneSessionsLog) :
                 stoneSessionsLog[i].date = getToday /\ stoneSessionsLog[i].completed})

\* canDoStoneSessionNow comparing with <= instead of <.
canDoStoneSessionNowInclusive == getStoneSessionsToday <= dailyStoneGoal

canDoStoneSessionNow == getStoneSessionsToday < dailyStoneGoal

startWritingSession ==
  /\ writingSessionsLog' = Append(writingSessionsLog,
       [id |-> nextId, date |-> getToday, timestamp |-> DateNow, duration |-> 0,
        wordCount |-> 0, resonanceScore |-> 0, phase |-> phase])
  /\ nextId' = nextId + 1
  /\ lastCall' = Called("startWritingSession", <<nextId>>)
  /\ UNCHANGED <<clock, viewVars, phase, startDate, hasCompletedOnboarding, dailyStoneGoal,
                 stoneSessionsLog, resonanceScores, unlocked, migrationChoice,
                 archivedBooks, devModeEnabled, utilVars, promptVars>>

\* A lookup that falls back on the latest session when no id matches.
FindSessionOrLatest(log, sessionId) ==
  IF \E i \in 1..Len(log) : log[i].id = sessionId
    THEN CHOOSE i \in 1..Len(log) :
           /\ log[i].id = sessionId
           /\ \A j \in 1..(i - 1) : log[j].id # sessionId
    ELSE Len(log)

\* Array.prototype.find: the index of the first session with this id, 0 if none.
FindSession(log, sessionId) ==
  IF \E i \in 1..Len(log) : log[i].id = sessionId
    THEN CHOOSE i \in 1..Len(log) :
           /\ log[i].id = sessionId
           /\ \A j \in 1..(i - 1) : log[j].id # sessionId
    ELSE 0

\* duration is in minutes: Math.round((Date.now() - session.timestamp) / 1000 / 60)
endWritingSession(sessionId, wordCount) ==
  LET i == FindSession(writingSessionsLog, sessionId) IN
  /\ writingSessionsLog' =
       IF i = 0 THEN writingSessionsLog
       ELSE [writingSessionsLog EXCEPT
               ![i].duration = DateNow - writingSessionsLog[i].timestamp,
               ![i].wordCount = wordCount]
  /\ lastCall' = Called("endWritingSession", <<sessionId>>)
  /\ UNCHANGED <<clock, viewVars, phase, startDate, hasCompletedOnboarding, dailyStoneGoal,
                 stoneSessionsLog, resonanceScores, unlocked, migrationChoice,
                 archivedBooks, devModeEnabled, nextId, utilVars, promptVars>>

recordResonanceScore(sessionId, score) ==
  LET i == FindSession(writingSessionsLog, sessionId) IN
  /\ writingSessionsLog' =
       IF i = 0 THEN writingSessionsLog
       ELSE [writingSessionsLog EXCEPT ![i].resonanceScore = score]
  /\ resonanceScores' = Append(resonanceScores,
       [id |-> nextId, date |-> getToday, score |-> score, sessionId |-> sessionId,
        timestamp |-> DateNow])
  /\ nextId' = nextId + 1
  /\ lastCall' = NoCall
  /\ UNCHANGED <<clock, viewVars, phase, startDate, hasCompletedOnboarding, dailyStoneGoal,
                 stoneSessionsLog, unlocked, migrationChoice, archivedBooks,
                 devModeEnabled, utilVars, promptVars>>

\* ------------------------------------------------------------------ store: phase management

\* The early return of checkPhaseTransition without the devModeEnabled test.
CheckSuspendedNoPin == startDate = None

\* `if (!startDate || devModeEnabled) return [];`
CheckSuspended == startDate = None \/ devModeEnabled

\* The previous week taken as the week of seven days ago.
PreviousWeekSevenDaysBack(daysSinceStart) == getCurrentWeek(daysSinceStart - 7)

\* The week checkPhaseTransition compares the current week with.
PreviousWeek(daysSinceStart) == getCurrentWeek(daysSinceStart - 1)

\* checkPhaseTransition that moves the stored phase one phase towards the
\* computed one per call instead of storing the computed phase.
checkPhaseTransitionStepwise ==
  LET daysSinceStart == getDaysSinceStart(startDate, now)
      newPhase == calculatePhase(daysSinceStart)
      newUnlocks == calculateUnlocks(daysSinceStart)
      featureUnlocks == getNewUnlocks(PreviousWeek(daysSinceStart),
                                      getCurrentWeek(daysSinceStart))
      stepPhase == IF PhaseRank(newPhase) > PhaseRank(phase)
                     THEN CHOOSE q \in Phases : PhaseRank(q) = PhaseRank(phase) + 1
                     ELSE newPhase
  IN
  /\ IF CheckSuspended
       THEN /\ lastCall' = Called("checkPhaseTransition", <<>>)
            /\ UNCHANGED <<phase, unlocked>>
       ELSE /\ phase' = stepPhase
            /\ unlocked' = newUnlocks
            /\ lastCall' = Called("checkPhaseTransition", featureUnlocks)
  /\ UNCHANGED <<clock, viewVars, startDate, hasCompletedOnboarding, ledgerVars, dailyStoneGoal,
                 migrationChoice, archivedBooks, devModeEnabled, utilVars, promptVars>>

\* checkPhaseTransition that stores a new phase only when it is a later phase.
checkPhaseTransitionForwardOnly ==
  LET daysSinceStart == getDaysSinceStart(startDate, now)
      newPhase == calculatePhase(daysSinceStart)
      newUnlocks == calculateUnlocks(daysSinceStart)
      featureUnlocks == getNewUnlocks(PreviousWeek(daysSinceStart),
                                      getCurrentWeek(daysSinceStart))
  IN
  /\ IF CheckSuspended
       THEN /\ lastCall' = Called("checkPhaseTransition", <<>>)
            /\ UNCHANGED <<phase, unlocked>>
       ELSE /\ phase' = IF PhaseRank(newPhase) > PhaseRank(phase) THEN newPhase ELSE phase
            /\ unlocked' = newUnlocks
            /\ lastCall' = Called("checkPhaseTransition", featureUnlocks)
  /\ UNCHANGED <<clock, viewVars, startDate, hasCompletedOnboarding, ledgerVars, dailyStoneGoal,
                 migrationChoice, archivedBooks, devModeEnabled, utilVars, promptVars>>

checkPhaseTransition ==
  LET daysSinceStart == getDaysSinceStart(startDate, now)
      newPhase == calculatePhase(daysSinceStart)
      newUnlocks == calculateUnlocks(daysSinceStart)
      featureUnlocks == getNewUnlocks(PreviousWeek(daysSinceStart),
                                      getCurrentWeek(daysSinceStart))
  IN
  /\ IF CheckSuspended
       THEN /\ lastCall' = Called("checkPhaseTransition", <<>>)
            /\ UNCHANGED <<phase, unlocked>>
       ELSE /\ phase' = newPhase
            /\ unlocked' = newUnlocks
            /\ lastCall' = Called("checkPhaseTransition", featureUnlocks)
  /\ UNCHANGED <<clock, viewVars, startDate, hasCompletedOnboarding, ledgerVars, dailyStoneGoal,
                 migrationChoice, archivedBooks, devModeEnabled, utilVars, promptVars>>

\* ------------------------------------------------------------------ store: derived readings

\* getDaysSinceStart() of the store
DaysSinceStart == getDaysSinceStart(startDate, now)

\* getCurrentWeek() reading the first week of the stored phase instead of the
\* elapsed days.
storeGetCurrentWeekOfPhase ==
  CASE phase = "stone" -> 1
    [] phase = "transfer" -> 2
    [] phase = "application" -> 4
    [] phase = "autonomous" -> 13

\* getCurrentWeek() of the store
storeGetCurrentWeek ==
  IF startDate = None THEN 1 ELSE getCurrentWeek(DaysSinceStart)

\* getCurrentDay() of the store
getCurrentDay ==
  IF startDate = None THEN 1 ELSE getDayOfWeek(DaysSinceStart)

\* The instant the weekly aggregates take as the start of the current journey
\* week: startDate moved on by (currentWeek - 1) * 7 days with setDate, then
\* put to local midnight with setHours(0, 0, 0, 0).
WeekStart ==
  LET currentWeek == getCurrentWeek(DaysSinceStart)
      weekStartDay == (currentWeek - 1) * 7
  IN LocalMidnight(startDate[1] + weekStartDay)

\* The filter of both weekly aggregates: new Date(s.date) >= start
InThisWeek(s) == ParseDate(s.date) >= WeekStart

\* getWritingSessionsThisWeek that counts the whole log while no journey is started.
getWritingSessionsThisWeekUnguarded ==
  IF startDate = None THEN Len(writingSessionsLog)
  ELSE Len(SelectSeq(writingSessionsLog, InThisWeek))

getWritingSessionsThisWeek ==
  IF startDate = None THEN 0
  ELSE Len(SelectSeq(writingSessionsLog, InThisWeek))

RECURSIVE SumScores(_)
SumScores(scores) ==
  IF scores = <<>> THEN 0 ELSE Head(scores).score + SumScores(Tail(scores))

\* Math.round((sum / count) * 10) / 10, counted in tenths.
RoundedAverage(sum, count) == (20 * sum + count) \div (2 * count)

\* getAverageResonanceThisWeek(), in tenths
getAverageResonanceThisWeek ==
  IF startDate = None \/ resonanceScores = <<>> THEN 0
  ELSE LET thisWeekScores == SelectSeq(resonanceScores, InThisWeek) IN
       IF thisWeekScores = <<>> THEN 0
       ELSE RoundedAverage(SumScores(thisWeekScores), Len(thisWeekScores))

\* ------------------------------------------------------------------ store: dev tools

setDevMode(enabled) ==
  /\ devModeEnabled' = enabled
  /\ lastCall' = NoCall
  /\ UNCHANGED <<clock, viewVars, phase, startDate, hasCompletedOnboarding, ledgerVars,
                 dailyStoneGoal, unlocked, migrationChoice, archivedBooks, utilVars, promptVars>>

ForcedUnlocks(p) ==
  CASE p = "stone" -> DEFAULT_UNLOCKS
    [] p = "transfer" -> [DEFAULT_UNLOCKS EXCEPT !.textEditor = TRUE]
    [] p = "application" ->
         [DEFAULT_UNLOCKS EXCEPT !.textEditor = TRUE, !.multipleChapters = TRUE,
                                 !.fullChapterManagement = TRUE,
                                 !.reflectionWorkspace = TRUE]
    [] p = "autonomous" -> ALL_UNLOCKS

forcePhase(p) ==
  /\ phase' = p
  /\ devModeEnabled' = TRUE
  /\ unlocked' = ForcedUnlocks(p)
  /\ lastCall' = NoCall
  /\ UNCHANGED <<clock, viewVars, startDate, hasCompletedOnboarding, ledgerVars, dailyStoneGoal,
                 migrationChoice, archivedBooks, utilVars, promptVars>>

forceDay(day) ==
  /\ startDate' = Some(now - (day - 1))
  /\ devModeEnabled' = TRUE
  /\ phase' = calculatePhase(day - 1)
  /\ unlocked' = calculateUnlocks(day - 1)
  /\ lastCall' = NoCall
  /\ UNCHANGED <<clock, viewVars, hasCompletedOnboarding, ledgerVars, dailyStoneGoal,
                 migrationChoice, archivedBooks, utilVars, promptVars>>

forceUnlock(feature) ==
  /\ unlocked' = [unlocked EXCEPT ![feature] = TRUE]
  /\ devModeEnabled' = TRUE
  /\ lastCall' = NoCall
  /\ UNCHANGED <<clock, viewVars, phase, startDate, hasCompletedOnboarding, ledgerVars,
                 dailyStoneGoal, migrationChoice, archivedBooks, utilVars, promptVars>>

\* ------------------------------------------------------------------ store: migration

\* timestamp left out, as in skipJourney.
setMigrationChoice(choice) ==
  /\ migrationChoice' = Some([choice |-> choice, previousDataPreserved |-> TRUE])
  /\ lastCall' = NoCall
  /\ UNCHANGED <<clock, viewVars, phase, startDate, hasCompletedOnboarding, ledgerVars,
                 dailyStoneGoal, unlocked, archivedBooks, devModeEnabled, utilVars, promptVars>>

archiveBook(bookId) ==
  /\ archivedBooks' =
       IF \E i \in 1..Len(archivedBooks) : archivedBooks[i].bookId = bookId
         THEN archivedBooks
         ELSE Append(archivedBooks, [bookId |-> bookId, accessibleAfterWeek |-> 13])
  /\ lastCall' = NoCall
  /\ UNCHANGED <<clock, viewVars, phase, startDate, hasCompletedOnboarding, ledgerVars,
                 dailyStoneGoal, unlocked, migrationChoice, devModeEnabled, utilVars, promptVars>>

unarchiveBook(bookId) ==
  /\ archivedBooks' = SelectSeq(archivedBooks, LAMBDA b : b.bookId # bookId)
  /\ lastCall' = NoCall
  /\ UNCHANGED <<clock, viewVars, phase, startDate, hasCompletedOnboarding, ledgerVars,
                 dailyStoneGoal, unlocked, migrationChoice, devModeEnabled, utilVars, promptVars>>

\* ------------------------------------------------------------------ constants/prompts.ts

\* An EngagementPrompt; the message and the type are left out: nothing reads them.
Prompt(id, promptPhase, intervalMinutes) ==
  [id |-> id, phase |-> promptPhase, intervalMinutes |-> intervalMinutes]

PROMPT_LIBRARY ==
  << Prompt("fingers-keys", 2, 5), Prompt("landing", 2, 5),
     Prompt("stone-reminder", 2, 7), Prompt("pause-breath", 2, 5),
     Prompt("move-something", 2, 5), Prompt("fingertips-lead", 2, 6),
     Prompt("space-between", 2, 5), Prompt("shoulders-soften", 2, 7),
     Prompt("voice-recognition", 3, 10), Prompt("body-reaction", 3, 10),
     Prompt("thinking-vs-feeling", 3, 10), Prompt("sound-like-you", 3, 12),
     Prompt("writing-from", 3, 10), Prompt("ring-true", 3, 10),
     Prompt("wants-to-be-said", 3, 11), Prompt("forcing-allowing", 3, 10),
     Prompt("notice-noticing", 4, 15), Prompt("ideas-connect", 4, 15),
     Prompt("passages-land", 4, 15), Prompt("voice-texture", 4, 18),
     Prompt("performing-genuine", 4, 15), Prompt("underneath", 4, 17),
     Prompt("check-in-feeling", 4, 30), Prompt("voice-check", 4, 30),
     Prompt("body-check", 4, 30) >>

Range(seq) == {seq[i] : i \in 1..Len(seq)}

\* getPromptsForWeek: the prompts of the library for a journey week, as a set.
getPromptsForWeek(week) ==
  IF week < 2 THEN {}
  ELSE IF week <= 3 THEN {q \in Range(PROMPT_LIBRARY) : q.phase = 2}
  ELSE IF week <= 6 THEN {q \in Range(PROMPT_LIBRARY) : q.phase = 3}
  ELSE IF week <= 9
    THEN {q \in Range(PROMPT_LIBRARY) : q.phase = 4 /\ q.intervalMinutes <= 20}
  ELSE {q \in Range(PROMPT_LIBRARY) : q.phase = 4 /\ q.intervalMinutes >= 25}

\* selectPrompt that does not set the prompts already shown aside.
selectPromptFromWholePool(week, recentlyShown) == getPromptsForWeek(week)

\* selectPrompt that returns null when every prompt of the week was shown.
selectPromptNoRepeats(week, recentlyShown) ==
  {q \in getPromptsForWeek(week) : q.id \notin Range(recentlyShown)}

\* selectPrompt: the prompts the random selection can return; the empty set
\* stands for the null it returns when the week has no prompts.
selectPrompt(week, recentlyShown) ==
  LET weekPrompts == getPromptsForWeek(week)
      freshPrompts == {q \in weekPrompts : q.id \notin Range(recentlyShown)}
  IN IF weekPrompts = {} THEN {}
     ELSE IF freshPrompts # {} THEN freshPrompts
     ELSE weekPrompts

\* ------------------------------------------------------------------ prompts store

progressVars == <<storeVars, nextId, utilVars>>

\* The EngagementPrompt component is rendered while currentPrompt is non-null
\* (`{currentPrompt && promptsEnabled && <EngagementPrompt ... />}`, with
\* prompts enabled): the store update that
\* displays a prompt mounts it with canDismiss = useState(false), and the
\* update that clears currentPrompt unmounts it and drops its state.
FreshView ==
  /\ canDismiss' = FALSE
  /\ displayedFor' = 0

\* scheduleNextPrompt: the nextPromptTime and the promptInterval it leaves.
ScheduledTime(week) ==
  LET interval == getPromptInterval(week) IN
  IF interval = None THEN None ELSE Some(DateNow + interval[1])

ScheduledInterval(week) ==
  LET interval == getPromptInterval(week) IN
  IF interval = None THEN promptInterval ELSE interval[1]

\* startWritingSession of the prompts store that empties the list of shown
\* prompts at every session start.
startPromptSessionResetting ==
  /\ promptsShownToday' = <<>>
  /\ lastResetDate' = getToday
  /\ writingSessionStartTime' = Some(DateNow)
  /\ isWritingSessionActive' = TRUE
  /\ promptsAnsweredThisSession' = 0
  /\ currentPrompt' = None
  /\ nextPromptTime' = ScheduledTime(2)
  /\ promptInterval' = ScheduledInterval(2)
  /\ lastCall' = NoCall
  /\ FreshView
  /\ UNCHANGED <<clock, progressVars, promptStartTime, lastPromptTime,
                 totalPromptsAnswered, promptsEnabled>>

\* startWritingSession of the prompts store (startPromptSession in the
\* components), with the scheduleNextPrompt(2) it ends with.
startPromptSession ==
  /\ promptsShownToday' = IF lastResetDate # getToday THEN <<>> ELSE promptsShownToday
  /\ lastResetDate' = getToday
  /\ writingSessionStartTime' = Some(DateNow)
  /\ isWritingSessionActive' = TRUE
  /\ promptsAnsweredThisSession' = 0
  /\ currentPrompt' = None
  /\ nextPromptTime' = ScheduledTime(2)
  /\ promptInterval' = ScheduledInterval(2)
  /\ lastCall' = NoCall
  /\ FreshView
  /\ UNCHANGED <<clock, progressVars, promptStartTime, lastPromptTime,
                 totalPromptsAnswered, promptsEnabled>>

\* endWritingSession of the prompts store (endPromptSession in the components).
endPromptSession ==
  /\ writingSessionStartTime' = None
  /\ isWritingSessionActive' = FALSE
  /\ currentPrompt' = None
  /\ nextPromptTime' = None
  /\ lastCall' = NoCall
  /\ FreshView
  /\ UNCHANGED <<clock, progressVars, promptStartTime, lastPromptTime, promptInterval,
                 promptsShownToday, totalPromptsAnswered, promptsAnsweredThisSession,
                 promptsEnabled, lastResetDate>>

\* showPrompt: the list of shown ids it leaves.
ShownWith(prompt) ==
  IF prompt.id \in Range(promptsShownToday) THEN promptsShownToday
  ELSE Append(promptsShownToday, prompt.id)

dismissPrompt ==
  /\ currentPrompt' = None
  /\ promptStartTime' = None
  /\ totalPromptsAnswered' = totalPromptsAnswered + 1
  /\ promptsAnsweredThisSession' = promptsAnsweredThisSession + 1
  /\ lastCall' = NoCall
  /\ FreshView
  /\ UNCHANGED <<clock, progressVars, lastPromptTime, nextPromptTime, promptInterval,
                 writingSessionStartTime, isWritingSessionActive, promptsShownToday,
                 promptsEnabled, lastResetDate>>

scheduleNextPrompt(week) ==
  /\ nextPromptTime' = ScheduledTime(week)
  /\ promptInterval' = ScheduledInterval(week)
  /\ lastCall' = NoCall
  /\ UNCHANGED <<clock, viewVars, progressVars, currentPrompt, promptStartTime, lastPromptTime,
                 writingSessionStartTime, isWritingSessionActive, promptsShownToday,
                 totalPromptsAnswered, promptsAnsweredThisSession, promptsEnabled,
                 lastResetDate>>

\* The first test of checkAndShowPrompt without the test for a displayed prompt.
CheckBlockedUnlessDisplayed == ~isWritingSessionActive \/ ~promptsEnabled

\* The first test of checkAndShowPrompt without the test for an active session.
CheckBlockedIgnoringSession == ~promptsEnabled \/ currentPrompt # None

\* `!isWritingSessionActive || !promptsEnabled || currentPrompt !== null`
CheckBlocked ==
  ~isWritingSessionActive \/ ~promptsEnabled \/ currentPrompt # None

\* The time test of checkAndShowPrompt left out.
NotTimeYetIgnored == FALSE

\* `state.nextPromptTime && Date.now() < state.nextPromptTime`: a null
\* nextPromptTime does not hold the prompt back.
NotTimeYet == nextPromptTime # None /\ DateNow < nextPromptTime[1]

\* checkAndShowPrompt, with the showPrompt and the scheduleNextPrompt it calls.
checkAndShowPrompt(week) ==
  LET selected == selectPrompt(week, promptsShownToday) IN
  /\ IF CheckBlocked \/ NotTimeYet \/ selected = {}
       THEN /\ lastCall' = Called("checkAndShowPrompt", <<FALSE>>)
            /\ UNCHANGED <<promptVars, viewVars>>
       ELSE /\ \E prompt \in selected :
                 /\ currentPrompt' = Some(prompt)
                 /\ promptsShownToday' = ShownWith(prompt)
            /\ promptStartTime' = Some(DateNow)
            /\ lastPromptTime' = Some(DateNow)
            /\ nextPromptTime' = ScheduledTime(week)
            /\ promptInterval' = ScheduledInterval(week)
            /\ lastCall' = Called("checkAndShowPrompt", <<TRUE>>)
            /\ FreshView
            /\ UNCHANGED <<writingSessionStartTime, isWritingSessionActive,
                           totalPromptsAnswered, promptsAnsweredThisSession,
                           promptsEnabled, lastResetDate>>
  /\ UNCHANGED <<clock, progressVars>>

\* resetSession that leaves the displayed prompt in place.
resetSessionKeepingPrompt ==
  /\ writingSessionStartTime' = None
  /\ isWritingSessionActive' = FALSE
  /\ nextPromptTime' = None
  /\ promptsAnsweredThisSession' = 0
  /\ lastCall' = NoCall
  /\ UNCHANGED <<clock, viewVars, progressVars, currentPrompt, promptStartTime, lastPromptTime,
                 promptInterval, promptsShownToday, totalPromptsAnswered,
                 promptsEnabled, lastResetDate>>

resetSession ==
  /\ currentPrompt' = None
  /\ promptStartTime' = None
  /\ writingSessionStartTime' = None
  /\ isWritingSessionActive' = FALSE
  /\ nextPromptTime' = None
  /\ promptsAnsweredThisSession' = 0
  /\ lastCall' = NoCall
  /\ FreshView
  /\ UNCHANGED <<clock, progressVars, lastPromptTime, promptInterval,
                 promptsShownToday, totalPromptsAnswered, promptsEnabled,
                 lastResetDate>>

setPromptsEnabled(enabled) ==
  /\ promptsEnabled' = enabled
  /\ lastCall' = NoCall
  /\ UNCHANGED <<clock, viewVars, progressVars, currentPrompt, promptStartTime, lastPromptTime,
                 nextPromptTime, promptInterval, writingSessionStartTime,
                 isWritingSessionActive, promptsShownToday, totalPromptsAnswered,
                 promptsAnsweredThisSession, lastResetDate>>

\* ------------------------------------------------------------------ phases/TransferPhase.tsx

\* handleSessionStart: startWritingSession of the progress store, then
\* startWritingSession of the prompts store, then scheduleNextPrompt with the
\* current week, which overrides the week-2 schedule of the call before it.
handleSessionStart ==
  LET week == storeGetCurrentWeek
      interval == getPromptInterval(week)
  IN
  /\ writingSessionsLog' = Append(writingSessionsLog,
       [id |-> nextId, date |-> getToday, timestamp |-> DateNow, duration |-> 0,
        wordCount |-> 0, resonanceScore |-> 0, phase |-> phase])
  /\ nextId' = nextId + 1
  /\ promptsShownToday' = IF lastResetDate # getToday THEN <<>> ELSE promptsShownToday
  /\ lastResetDate' = getToday
  /\ writingSessionStartTime' = Some(DateNow)
  /\ isWritingSessionActive' = TRUE
  /\ promptsAnsweredThisSession' = 0
  /\ currentPrompt' = None
  /\ nextPromptTime' = ScheduledTime(week)
  /\ promptInterval' = IF interval = None THEN getPromptInterval(2)[1] ELSE interval[1]
  /\ lastCall' = NoCall
  /\ FreshView
  /\ UNCHANGED <<clock, phase, startDate, hasCompletedOnboarding, dailyStoneGoal,
                 stoneSessionsLog, resonanceScores, unlocked, migrationChoice,
                 archivedBooks, devModeEnabled, utilVars, promptStartTime,
                 lastPromptTime, totalPromptsAnswered, promptsEnabled>>

\* handlePromptDismiss: dismissPrompt, then scheduleNextPrompt with the
\* current week.
handlePromptDismiss ==
  LET week == storeGetCurrentWeek IN
  /\ currentPrompt' = None
  /\ promptStartTime' = None
  /\ totalPromptsAnswered' = totalPromptsAnswered + 1
  /\ promptsAnsweredThisSession' = promptsAnsweredThisSession + 1
  /\ nextPromptTime' = ScheduledTime(week)
  /\ promptInterval' = ScheduledInterval(week)
  /\ lastCall' = NoCall
  /\ FreshView
  /\ UNCHANGED <<clock, progressVars, lastPromptTime, writingSessionStartTime,
                 isWritingSessionActive, promptsShownToday, promptsEnabled,
                 lastResetDate>>

\* ------------------------------------------------------------------ components/VoiceJourney/writing/EngagementPrompt.tsx

\* The default of the minDisplayTime property, in milliseconds; no caller
\* passes another value.
minDisplayTime == 2000

\* The timer of the component firing as soon as the component is mounted.
displayTimeoutAtOnce ==
  /\ currentPrompt # None
  /\ ~canDismiss
  /\ canDismiss' = TRUE
  /\ lastCall' = NoCall
  /\ UNCHANGED <<clock, displayedFor, storeVars, nextId, utilVars, promptVars>>

\* setTimeout(() => setCanDismiss(true), minDisplayTime), set when the
\* component is mounted.  The countdown of the component (setInterval, 100
\* ms) sets canDismiss too, when timeLeft has come down from minDisplayTime /
\* 1000 to 0 in steps of 0.1: that is later than this timer.
displayTimeout ==
  /\ currentPrompt # None
  /\ ~canDismiss
  /\ displayedFor >= minDisplayTime
  /\ canDismiss' = TRUE
  /\ lastCall' = NoCall
  /\ UNCHANGED <<clock, displayedFor, storeVars, nextId, utilVars, promptVars>>

\* The continue button: `onClick={canDismiss ? onDismiss : undefined}`, with
\* onDismiss = handlePromptDismiss.
clickContinue ==
  /\ currentPrompt # None
  /\ IF canDismiss THEN handlePromptDismiss ELSE UNCHANGED vars

\* DisplayStep milliseconds pass with a prompt on the screen; the clock of
\* the stores, which counts minutes, reads the same.
TickDisplay ==
  /\ currentPrompt # None
  /\ displayedFor + DisplayStep <= MaxDisplayedFor
  /\ displayedFor' = displayedFor + DisplayStep
  /\ lastCall' = NoCall
  /\ UNCHANGED <<clock, canDismiss, storeVars, nextId, utilVars, promptVars>>

\* ------------------------------------------------------------------ the wall clock

\* Minutes or days have passed: a prompt on the screen has been there for
\* longer than the component counts.
LongDisplayed ==
  /\ displayedFor' = IF currentPrompt # None THEN MaxDisplayedFor ELSE displayedFor
  /\ canDismiss' = canDismiss

\* A day passes.  No store call has been made since.
AdvanceClock(horizon) ==
  /\ now < horizon
  /\ now' = now + 1
  /\ lastCall' = NoCall
  /\ LongDisplayed
  /\ UNCHANGED <<minuteOfDay, utcOffset, storeVars, nextId, utilVars, promptVars>>

Tick == AdvanceClock(MaxDay)

\* `step` minutes pass, into the next day when the day is over.
AdvanceMinutes(step, horizon) ==
  LET minute == minuteOfDay + step IN
  /\ now + (minute \div MinutesPerDay) <= horizon
  /\ now' = now + (minute \div MinutesPerDay)
  /\ minuteOfDay' = minute % MinutesPerDay
  /\ lastCall' = NoCall
  /\ LongDisplayed
  /\ UNCHANGED <<utcOffset, storeVars, nextId, utilVars, promptVars>>

HalfDay == MinutesPerDay \div 2

TickPrompt ==
  /\ minuteOfDay + PromptStep <= MaxMinute
  /\ AdvanceMinutes(PromptStep, MaxDay)

TickHalfDay == AdvanceMinutes(HalfDay, MaxDay)

TickJourney == AdvanceClock(MaxJourneyDay)

\* ------------------------------------------------------------------ direct calls of the utilities

UtilCalled(fn, args) == [fn |-> fn, args |-> args]

callCalculatePhase(daysSinceStart) ==
  /\ utilCall' = UtilCalled("calculatePhase", <<daysSinceStart>>)
  /\ utilRet' = calculatePhase(daysSinceStart)
  /\ UNCHANGED <<clock, viewVars, storeVars, nextId, lastCall, promptVars>>

callCalculateUnlocks(daysSinceStart) ==
  /\ utilCall' = UtilCalled("calculateUnlocks", <<daysSinceStart>>)
  /\ utilRet' = calculateUnlocks(daysSinceStart)
  /\ UNCHANGED <<clock, viewVars, storeVars, nextId, lastCall, promptVars>>

callGetPromptInterval(week) ==
  /\ utilCall' = UtilCalled("getPromptInterval", <<week>>)
  /\ utilRet' = getPromptInterval(week)
  /\ UNCHANGED <<clock, viewVars, storeVars, nextId, lastCall, promptVars>>

callGetDayOfWeek(daysSinceStart) ==
  /\ utilCall' = UtilCalled("getDayOfWeek", <<daysSinceStart>>)
  /\ utilRet' = getDayOfWeek(daysSinceStart)
  /\ UNCHANGED <<clock, viewVars, storeVars, nextId, lastCall, promptVars>>

callGetNewUnlocks(previousWeek, currentWeek) ==
  /\ utilCall' = UtilCalled("getNewUnlocks", <<previousWeek, currentWeek>>)
  /\ utilRet' = getNewUnlocks(previousWeek, currentWeek)
  /\ UNCHANGED <<clock, viewVars, storeVars, nextId, lastCall, promptVars>>

\* ------------------------------------------------------------------ specifications

\* The calls that read the clock into startDate.
StartOps ==
  \/ startJourney
  \/ completeOnboarding

\* The calls that append a record to a log.
LedgerAppends ==
  \/ /\ Len(stoneSessionsLog) < MaxLog
     /\ \E d \in Durations, r \in Reflections : completeStoneSession(d, r)
  \/ /\ Len(writingSessionsLog) < MaxLog
     /\ startWritingSession
  \/ /\ Len(resonanceScores) < MaxLog
     /\ \E id \in SessionIds, sc \in Scores : recordResonanceScore(id, sc)

LedgerOps ==
  \/ LedgerAppends
  \/ \E id \in SessionIds, wc \in WordCounts : endWritingSession(id, wc)

PinOps ==
  \/ \E b \in BOOLEAN : setDevMode(b)
  \/ \E p \in Phases : forcePhase(p)
  \/ \E f \in ForceFeatures : forceUnlock(f)

MigrationOps ==
  \/ setMigrationChoice("journey")
  \/ \E b \in Books : archiveBook(b)
  \/ \E b \in Books : unarchiveBook(b)

\* The whole progress store over a few days, with MaxLog records in all.
Next ==
  \/ StartOps
  \/ skipJourney
  \/ checkPhaseTransition
  \/ nextId <= MaxLog /\ LedgerAppends
  \/ \E id \in SessionIds, wc \in WordCounts : endWritingSession(id, wc)
  \/ PinOps
  \/ \E day \in ForceDays : forceDay(day)
  \/ MigrationOps
  \/ resetJourney
  \/ Tick

Spec == Init /\ [][Next]_vars

\* Normal operation: no reset, no dev tool.
NextNormal ==
  \/ StartOps
  \/ skipJourney
  \/ checkPhaseTransition
  \/ LedgerOps
  \/ Tick

SpecNormal == Init /\ [][NextNormal]_vars

\* The journey lifecycle, the periodic check and the dev tools over a whole
\* journey.  The phase logic reads the clock only through now - startDate, so
\* the calls that set startDate are made in the first days of the run.
StartWindow == now <= MaxStartDay

NextPhase ==
  \/ StartWindow /\ StartOps
  \/ StartWindow /\ \E day \in ForceDays : forceDay(day)
  \/ skipJourney
  \/ checkPhaseTransition
  \/ PinOps
  \/ resetJourney
  \/ TickJourney

SpecPhase == Init /\ [][NextPhase]_vars

\* A whole journey under normal operation: the lifecycle calls and the periodic check.
NextJourney ==
  \/ StartWindow /\ StartOps
  \/ skipJourney
  \/ checkPhaseTransition
  \/ TickJourney

SpecJourney == Init /\ [][NextJourney]_vars

\* The stone practice: sessions recorded at noon and at midnight of a few
\* days, in each of the zones.
NextStone ==
  \/ /\ Len(stoneSessionsLog) < MaxStone
     /\ \E d \in Durations, r \in Reflections : completeStoneSession(d, r)
  \/ TickHalfDay

SpecStone == InitAnyZone /\ [][NextStone]_vars

\* The writing ledger over the days on which a journey is started.
TickLedger == AdvanceClock(MaxStartDay)

\* The writing ledger and the derived readings, before and after the journey
\* is started.
NextLedger ==
  \/ startJourney
  \/ checkPhaseTransition
  \/ /\ nextId <= MaxRecords
     /\ startWritingSession
  \/ \E id \in SessionIds, wc \in WordCounts : endWritingSession(id, wc)
  \/ /\ nextId <= MaxRecords
     /\ \E id \in SessionIds, sc \in Scores : recordResonanceScore(id, sc)
  \/ TickLedger

SpecLedger == Init /\ [][NextLedger]_vars

TickWeek == AdvanceMinutes(HalfDay, MaxWeekDay)

\* The weekly aggregates over the first journey week and the start of the
\* second, in each of the zones.
NextWeek ==
  \/ StartWindow /\ startJourney
  \/ /\ Len(writingSessionsLog) < MaxLog
     /\ startWritingSession
  \/ /\ Len(resonanceScores) < MaxLog + 1
     /\ \E id \in SessionIds, sc \in WeekScores :
          /\ FindSession(writingSessionsLog, id) # 0
          /\ recordResonanceScore(id, sc)
  \/ TickWeek

SpecWeek == InitAnyZone /\ [][NextWeek]_vars

\* The prompts store during the writing sessions of one journey week.  The
\* components pass the week of the progress store to every call that takes
\* one; the journey is put into its week while no session is active; a prompt
\* is dismissed with the button of the displayed prompt.  showPrompt is
\* called by checkAndShowPrompt only; adjustInterval, resetDailyPrompts and
\* resetSession are called by no component.
NextPrompts ==
  \/ /\ startDate = None
     /\ ~isWritingSessionActive
     /\ \E day \in PromptDays : forceDay(day)
  \/ startPromptSession
  \/ endPromptSession
  \/ scheduleNextPrompt(storeGetCurrentWeek)
  \/ checkAndShowPrompt(storeGetCurrentWeek)
  \/ /\ currentPrompt # None
     /\ totalPromptsAnswered < MaxAnswered
     /\ dismissPrompt
  \/ \E enabled \in BOOLEAN : setPromptsEnabled(enabled)
  \/ TickPrompt

SpecPrompts == Init /\ [][NextPrompts]_vars

\* The session lifecycle of the prompts store in weeks 2 and 10: the
\* operations of the specification above and resetSession, in any order.
NextSessions ==
  \/ /\ startDate = None
     /\ ~isWritingSessionActive
     /\ \E day \in SessionDays : forceDay(day)
  \/ startPromptSession
  \/ endPromptSession
  \/ resetSession
  \/ scheduleNextPrompt(storeGetCurrentWeek)
  \/ checkAndShowPrompt(storeGetCurrentWeek)
  \/ /\ currentPrompt # None
     /\ totalPromptsAnswered < MaxAnswered
     /\ dismissPrompt
  \/ \E enabled \in BOOLEAN : setPromptsEnabled(enabled)
  \/ TickPrompt

SpecSessions == Init /\ [][NextSessions]_vars

\* The prompts store over the sessions of a few days of journey week 2, at
\* noon and at midnight, in each of the zones.
NextDaily ==
  \/ /\ startDate = None
     /\ ~isWritingSessionActive
     /\ forceDay(8)
  \/ startPromptSession
  \/ endPromptSession
  \/ checkAndShowPrompt(storeGetCurrentWeek)
  \/ /\ currentPrompt # None
     /\ totalPromptsAnswered < MaxDailyAnswered
     /\ dismissPrompt
  \/ TickHalfDay

SpecDaily == InitAnyZone /\ [][NextDaily]_vars

TickDay == AdvanceClock(MaxWeekDay)

\* The two periodic checks side by side: a journey started under normal
\* operation, writing sessions with their prompts, and the clock up to the
\* second journey week.
NextTimers ==
  \/ StartWindow /\ startJourney
  \/ checkPhaseTransition
  \/ checkAndShowPrompt(storeGetCurrentWeek)
  \/ /\ Len(writingSessionsLog) < MaxLog
     /\ handleSessionStart
  \/ endPromptSession
  \/ /\ currentPrompt # None
     /\ totalPromptsAnswered < MaxDailyAnswered
     /\ handlePromptDismiss
  \/ TickDay

SpecTimers == Init /\ [][NextTimers]_vars

\* A session of journey week 2 with the prompt on the screen: the timer of
\* the component and the continue button, the time on the screen in seconds.
NextDisplay ==
  \/ /\ startDate = None
     /\ ~isWritingSessionActive
     /\ forceDay(8)
  \/ /\ Len(writingSessionsLog) < MaxLog
     /\ handleSessionStart
  \/ endPromptSession
  \/ checkAndShowPrompt(storeGetCurrentWeek)
  \/ displayTimeout
  \/ clickContinue
  \/ TickDisplay
  \/ TickPrompt

SpecDisplay == Init /\ [][NextDisplay]_vars

TickDelivery ==
  /\ minuteOfDay + QuarterHour <= MaxDeliveryMinute
  /\ AdvanceMinutes(QuarterHour, MaxDay)

\* Prompt delivery in a session of journey week 7: the session handlers of
\* the components, the periodic check and the clock.  The run has one
\* session, long enough for the pool of the week to be used up.
NextDelivery ==
  \/ /\ startDate = None
     /\ ~isWritingSessionActive
     /\ forceDay(49)
  \/ /\ writingSessionsLog = <<>>
     /\ handleSessionStart
  \/ endPromptSession
  \/ checkAndShowPrompt(storeGetCurrentWeek)
  \/ /\ currentPrompt # None
     /\ handlePromptDismiss
  \/ TickDelivery

\* The timer keeps calling the check, the clock keeps moving, and the writer
\* dismisses every prompt in the end; starting and ending the session is up
\* to the writer.
SpecDelivery ==
  /\ Init
  /\ [][NextDelivery]_vars
  /\ WF_vars(TickDelivery)
  /\ WF_vars(checkAndShowPrompt(storeGetCurrentWeek))
  /\ WF_vars(currentPrompt # None /\ handlePromptDismiss)

\* The first record of each log.
FirstRecords ==
  \/ /\ stoneSessionsLog = <<>>
     /\ \E d \in Durations : completeStoneSession(d, None)
  \/ /\ writingSessionsLog = <<>>
     /\ startWritingSession
  \/ /\ resonanceScores = <<>>
     /\ \E id \in SessionIds, sc \in Scores : recordResonanceScore(id, sc)

\* The journey reset: a journey with its records, its migration choice and
\* its archive, the dev override, the reset, and the journey started after
\* it.  The store is filled in the first days of the run; the reset and the
\* check come at any time.
NextReset ==
  \/ StartWindow /\ startJourney
  \/ StartWindow /\ nextId <= MaxResetRecords /\ FirstRecords
  \/ StartWindow /\ \E b \in BOOLEAN : setDevMode(b)
  \/ StartWindow /\ setMigrationChoice("journey")
  \/ StartWindow /\ \E b \in Books : archiveBook(b)
  \/ resetJourney
  \/ checkPhaseTransition
  \/ TickDay

SpecReset == Init /\ [][NextReset]_vars

\* The utilities of phaseUnlock.ts called on every input of the bounded ranges.
NextCalc ==
  \/ \E d \in 0..MaxElapsed : callCalculatePhase(d)
  \/ \E d \in 0..MaxElapsed : callCalculateUnlocks(d)
  \/ \E w \in 1..MaxWeek : callGetPromptInterval(w)
  \/ \E pw \in 0..MaxWeek, cw \in 0..MaxWeek : callGetNewUnlocks(pw, cw)
  \/ \E d \in 0..MaxElapsed : callGetDayOfWeek(d)

SpecCalc == Init /\ [][NextCalc]_vars

\* ------------------------------------------------------------------ claims

\* C1: under normal operation the stored phase never changes to an earlier
\* phase and no flag of `unlocked` goes from true to false.
C1_ForwardOnly ==
  [][/\ PhaseRank(phase') >= PhaseRank(phase)
     /\ \A f \in Features : unlocked[f] => unlocked'[f]]_vars

\* C2: whenever devModeEnabled is false, the stored phase is the phase the
\* boundary table gives for the current elapsed days.
C2_PhaseAlwaysComputed ==
  ~devModeEnabled => phase = calculatePhase(DaysSinceStart)

\* C2 (amended): right after a checkPhaseTransition call that was not
\* suspended (startDate set, devModeEnabled false) the stored phase and the
\* stored unlocks are the ones computed from the current elapsed days.
C2_PhaseComputedAfterCheck ==
  (lastCall.op = "checkPhaseTransition" /\ ~CheckSuspended) =>
    /\ phase = calculatePhase(DaysSinceStart)
    /\ unlocked = calculateUnlocks(DaysSinceStart)

\* A check has just moved a started journey into the application phase.
C2_Witness ==
  /\ lastCall.op = "checkPhaseTransition"
  /\ ~CheckSuspended
  /\ DaysSinceStart = 21
  /\ phase = "application"

\* C3: while devModeEnabled is set, checkPhaseTransition returns the empty
\* list and leaves phase and unlocked unchanged, and a clock advance leaves
\* them unchanged too, whatever the clock value.
C3_PinSuspendsCheck ==
  [][devModeEnabled =>
       /\ checkPhaseTransition =>
            (lastCall'.ret = <<>> /\ phase' = phase /\ unlocked' = unlocked)
       /\ TickJourney => (phase' = phase /\ unlocked' = unlocked)]_vars

\* The check was called on the first day of week 2 of a journey pinned to a
\* phase the calculator disagrees with, and returned nothing.
C3_Witness ==
  /\ devModeEnabled
  /\ startDate # None
  /\ lastCall.op = "checkPhaseTransition"
  /\ lastCall.ret = <<>>
  /\ DaysSinceStart = 7
  /\ phase = "autonomous"

\* C4: the announcements of a week-boundary crossing are returned by at most
\* one call: a call that directly follows a call which returned them, the
\* clock unchanged (so the journey is in the same week), returns the empty list.
C4_AnnouncedOnce ==
  [][(/\ lastCall.op = "checkPhaseTransition"
      /\ lastCall.ret # <<>>
      /\ checkPhaseTransition) => lastCall'.ret = <<>>]_vars

\* C5: a checkPhaseTransition call that directly follows another one, the
\* clock unchanged, changes nothing of the store.
C5_CheckIdempotent ==
  [][(lastCall.op = "checkPhaseTransition" /\ checkPhaseTransition) =>
       UNCHANGED <<clock, viewVars, storeVars, nextId>>]_vars

\* Two checks in a row were made on a started journey whose stored phase the
\* first of them had caught up with the clock.
C5_Witness ==
  /\ lastCall.op = "checkPhaseTransition"
  /\ lastCall.again
  /\ ~CheckSuspended
  /\ DaysSinceStart >= 84
  /\ phase = "autonomous"

\* C6: once startDate is non-null, only resetJourney and forceDay change it.
C6_StartDateSetOnce ==
  [][startDate # None =>
       \/ startDate' = startDate
       \/ resetJourney
       \/ \E day \in ForceDays : forceDay(day)]_vars

\* C7: calculatePhase is stone for 0..6, transfer for 7..20, application for
\* 21..83 and autonomous from 84 on; it is total and non-decreasing.
C7_PhaseTable ==
  utilCall.fn = "calculatePhase" =>
    LET d == utilCall.args[1] IN
    /\ utilRet \in Phases
    /\ d \in 0..6 => utilRet = "stone"
    /\ d \in 7..20 => utilRet = "transfer"
    /\ d \in 21..83 => utilRet = "application"
    /\ d >= 84 => utilRet = "autonomous"
    /\ \A e \in 0..d : PhaseRank(calculatePhase(e)) <= PhaseRank(utilRet)

\* calculatePhase was called on the first autonomous day.
C7_Witness ==
  /\ utilCall.fn = "calculatePhase"
  /\ utilCall.args[1] = 84
  /\ utilRet = "autonomous"

\* C8: calculateUnlocks sets each flag exactly when week = floor(d/7)+1 has
\* reached the flag's threshold, gives the same flags for every day of the
\* same week, and the flags of week w include those of week w-1.
C8_UnlockTable ==
  utilCall.fn = "calculateUnlocks" =>
    LET d == utilCall.args[1]
        week == (d \div 7) + 1
    IN
    /\ DOMAIN utilRet = Features
    /\ utilRet["textEditor"] = (week >= 2)
    /\ utilRet["multipleChapters"] = (week >= 4)
    /\ utilRet["fullChapterManagement"] = (week >= 7)
    /\ utilRet["reflectionWorkspace"] = (week >= 7)
    /\ utilRet["communityFeatures"] = (week >= 10)
    /\ utilRet["fullEditor"] = (week >= 10)
    /\ utilRet["exportFeatures"] = (week >= 10)
    /\ \A e \in 0..MaxElapsed :
         (e \div 7) + 1 = week => calculateUnlocks(e) = utilRet
    /\ week >= 2 => \A f \in Features : calculateUnlocks(d - 7)[f] => utilRet[f]

\* calculateUnlocks was called 7 days in: the text editor alone is unlocked.
C8_Witness ==
  /\ utilCall.fn = "calculateUnlocks"
  /\ utilCall.args[1] = 7
  /\ \A f \in Features : utilRet[f] = (f = "textEditor")

AnnouncedPairs == {<<1, 2>>, <<3, 4>>, <<6, 7>>, <<9, 10>>, <<12, 13>>}

FeatureNames(unlocks) == [i \in 1..Len(unlocks) |-> unlocks[i].feature]

\* C9: getNewUnlocks is non-empty exactly for (1,2), (3,4), (6,7), (9,10) and
\* (12,13), each with its fixed announcements; every other pair, also one
\* that skips over a threshold, gives the empty list.
C9_EdgePairsOnly ==
  utilCall.fn = "getNewUnlocks" =>
    LET pair == utilCall.args IN
    /\ (utilRet # <<>>) <=> (pair \in AnnouncedPairs)
    /\ pair = <<1, 2>> => FeatureNames(utilRet) = <<"Text Editor">>
    /\ pair = <<3, 4>> => FeatureNames(utilRet) = <<"Multiple Chapters">>
    /\ pair = <<6, 7>> =>
         FeatureNames(utilRet) = <<"Unlimited Chapters", "Reflection Workspace">>
    /\ pair = <<9, 10>> =>
         FeatureNames(utilRet) = <<"Community Sharing", "Export & Publishing">>
    /\ pair = <<12, 13>> => FeatureNames(utilRet) = <<"Full Autonomy">>

\* getNewUnlocks was called with a pair that skips the week-4 threshold.
C9_Witness ==
  /\ utilCall.fn = "getNewUnlocks"
  /\ utilCall.args = <<2, 4>>
  /\ utilRet = <<>>

\* C10: getPromptInterval is null for week 1, 5 for weeks 2..3, 10 for weeks
\* 4..6, 15 for weeks 7..9 and null from week 10 on.
C10_PromptIntervalTable ==
  utilCall.fn = "getPromptInterval" =>
    LET week == utilCall.args[1] IN
    /\ week = 1 => utilRet = None
    /\ week \in 2..3 => utilRet = Some(5)
    /\ week \in 4..6 => utilRet = Some(10)
    /\ week \in 7..9 => utilRet = Some(15)
    /\ week >= 10 => utilRet = None

\* getPromptInterval was called for the last week that has an interval.
C10_Witness ==
  /\ utilCall.fn = "getPromptInterval"
  /\ utilCall.args[1] = 9
  /\ utilRet = Some(15)

\* C11: for every elapsedDays >= 0 the week and the day of the week derived
\* from it satisfy week >= 1, day in 1..7 and (week-1)*7 + (day-1) = elapsedDays.
C11_WeekDayRoundTrip ==
  utilCall.fn = "getDayOfWeek" =>
    LET elapsedDays == utilCall.args[1]
        week == getCurrentWeek(elapsedDays)
        day == utilRet
    IN
    /\ week >= 1
    /\ day \in 1..7
    /\ (week - 1) * 7 + (day - 1) = elapsedDays

\* getDayOfWeek was called on the last day of week 3.
C11_Witness ==
  /\ utilCall.fn = "getDayOfWeek"
  /\ utilCall.args[1] = 20
  /\ utilRet = 7
  /\ getCurrentWeek(20) = 3

\* C12: completeStoneSession appends exactly one completed session dated
\* today and changes no record of the log, whatever the number of sessions
\* already recorded; when the sessions of the log were all recorded today (n
\* calls on one day from an empty log), getStoneSessionsToday() is n and
\* canDoStoneSessionNow() is true exactly when n < dailyStoneGoal.
C12_StoneSessionAppended ==
  [][\A d \in Durations, r \in Reflections :
       completeStoneSession(d, r) =>
         LET n == Len(stoneSessionsLog) IN
         /\ Len(stoneSessionsLog') = n + 1
         /\ SubSeq(stoneSessionsLog', 1, n) = stoneSessionsLog
         /\ stoneSessionsLog'[n + 1].completed
         /\ stoneSessionsLog'[n + 1].date = getToday
         /\ (\A i \in 1..n : stoneSessionsLog[i].date = getToday) =>
              /\ getStoneSessionsToday' = n + 1
              /\ canDoStoneSessionNow' = (n + 1 < dailyStoneGoal)]_vars

\* A third session was recorded on a day whose goal of two was already met.
C12_Witness ==
  /\ Len(stoneSessionsLog) = 3
  /\ \A i \in 1..3 : stoneSessionsLog[i].date = getToday
  /\ getStoneSessionsToday = 3
  /\ dailyStoneGoal = 2
  /\ ~canDoStoneSessionNow

\* C13: startWritingSession creates the session open (duration 0, wordCount
\* 0), and an endWritingSession call that follows an endWritingSession call
\* with the same id leaves the duration and the wordCount of that session as
\* the first call set them.
C13_FinalizedOnce ==
  [][/\ startWritingSession =>
          LET session == writingSessionsLog'[Len(writingSessionsLog')] IN
          session.duration = 0 /\ session.wordCount = 0
     /\ \A id \in SessionIds, wc \in WordCounts :
          LET i == FindSession(writingSessionsLog, id) IN
          (/\ lastCall.op = "endWritingSession"
           /\ lastCall.ret = <<id>>
           /\ i # 0
           /\ endWritingSession(id, wc)) =>
            /\ writingSessionsLog'[i].duration = writingSessionsLog[i].duration
            /\ writingSessionsLog'[i].wordCount = writingSessionsLog[i].wordCount]_vars

\* C14: endWritingSession with an id that matches no session of the log
\* changes nothing of the store.
C14_UnknownIdIgnored ==
  [][\A id \in SessionIds, wc \in WordCounts :
       (/\ \A i \in 1..Len(writingSessionsLog) : writingSessionsLog[i].id # id
        /\ endWritingSession(id, wc)) =>
         UNCHANGED <<storeVars, nextId>>]_vars

\* endWritingSession was called with an id no session has, the log holding
\* an open session.
C14_Witness ==
  /\ lastCall.op = "endWritingSession"
  /\ writingSessionsLog # <<>>
  /\ \A i \in 1..Len(writingSessionsLog) : writingSessionsLog[i].id # lastCall.ret[1]
  /\ writingSessionsLog[1].duration = 0
  /\ writingSessionsLog[1].wordCount = 0

\* C15: while startDate is null the derived readings are 0 elapsed days,
\* week 1, day 1, 0 sessions this week and average 0, whatever the logs hold,
\* and checkPhaseTransition returns the empty list and changes nothing.
C15_NullStartDefaults ==
  [][startDate = None =>
       /\ DaysSinceStart = 0
       /\ storeGetCurrentWeek = 1
       /\ getCurrentDay = 1
       /\ getWritingSessionsThisWeek = 0
       /\ getAverageResonanceThisWeek = 0
       /\ checkPhaseTransition =>
            (lastCall'.ret = <<>> /\ UNCHANGED <<storeVars, nextId>>)]_vars

\* The check was called before the journey was started, both logs holding a
\* record.
C15_Witness ==
  /\ startDate = None
  /\ writingSessionsLog # <<>>
  /\ resonanceScores # <<>>
  /\ lastCall.op = "checkPhaseTransition"
  /\ lastCall.ret = <<>>
  /\ getWritingSessionsThisWeek = 0
  /\ getAverageResonanceThisWeek = 0

\* C16: for a started journey getWritingSessionsThisWeek() is the number of
\* sessions started on or after the first day of the current journey week
\* (local day startDate + (currentWeek - 1) * 7) and
\* getAverageResonanceThisWeek() is the rounded average of the scores
\* recorded on or after that day (0 if there is none), at every time of day
\* and in every zone.
C16_WeekAggregates ==
  startDate # None =>
    LET firstDay == startDate[1] + (storeGetCurrentWeek - 1) * 7
        Recorded(s) == LocalDay(s.timestamp) >= firstDay
        sessions == SelectSeq(writingSessionsLog, Recorded)
        scores == SelectSeq(resonanceScores, Recorded)
    IN
    /\ getWritingSessionsThisWeek = Len(sessions)
    /\ getAverageResonanceThisWeek =
         IF scores = <<>> THEN 0 ELSE RoundedAverage(SumScores(scores), Len(scores))
    /\ \A v \in WeekScores :
         (scores # <<>> /\ \A i \in 1..Len(scores) : scores[i].score = v) =>
           getAverageResonanceThisWeek = 10 * v

\* The components call checkAndShowPrompt with the week of the progress
\* store, and so do the formulas below.

\* C17: checkAndShowPrompt returns false and leaves the prompts state
\* unchanged when no session is active, or prompts are disabled, or a prompt
\* is displayed; and no step puts another prompt in the place of a displayed one.
C17_BlockedCheckIsNoOp ==
  [][/\ LET week == storeGetCurrentWeek IN
          (/\ \/ ~isWritingSessionActive
              \/ ~promptsEnabled
              \/ currentPrompt # None
           /\ checkAndShowPrompt(week)) =>
            (lastCall'.ret = <<FALSE>> /\ UNCHANGED promptVars)
     /\ (currentPrompt # None /\ currentPrompt' # None) =>
          currentPrompt' = currentPrompt]_vars

\* The check was made when the next prompt was due, and returned false
\* because the prompt before it was still displayed.
C17_Witness ==
  /\ lastCall.op = "checkAndShowPrompt"
  /\ lastCall.ret = <<FALSE>>
  /\ isWritingSessionActive
  /\ promptsEnabled
  /\ currentPrompt # None
  /\ nextPromptTime # None
  /\ DateNow >= nextPromptTime[1]

\* C18: in an active session of a week without prompt interval (week 1 or
\* week 10 and later), after scheduleNextPrompt(week) has left nextPromptTime
\* null, checkAndShowPrompt(week) displays nothing: it returns false and
\* currentPrompt stays as it is.
C18_NoPromptWithoutInterval ==
  [][LET week == storeGetCurrentWeek IN
       (/\ getPromptInterval(week) = None
        /\ isWritingSessionActive
        /\ nextPromptTime = None
        /\ checkAndShowPrompt(week)) =>
         (lastCall'.ret = <<FALSE>> /\ currentPrompt' = currentPrompt)]_vars

\* C19: in weeks 2..9, with m the prompt interval of the week, a
\* checkAndShowPrompt that displays a prompt does so in an active session
\* at or after nextPromptTime, leaves nextPromptTime = now + m, and comes at
\* least m minutes after the display before it in the same session.
C19_DisplaysSpaced ==
  [][LET week == storeGetCurrentWeek IN
       (week \in 2..9 /\ checkAndShowPrompt(week) /\ lastCall'.ret = <<TRUE>>) =>
         LET m == getPromptInterval(week)[1] IN
         /\ isWritingSessionActive
         /\ nextPromptTime # None
         /\ DateNow >= nextPromptTime[1]
         /\ nextPromptTime' = Some(DateNow + m)
         /\ promptsAnsweredThisSession >= 1 => DateNow - lastPromptTime[1] >= m]_vars

\* A second prompt of a week-2 session was displayed, after the first one
\* was dismissed.
C19_Witness ==
  /\ lastCall.op = "checkAndShowPrompt"
  /\ lastCall.ret = <<TRUE>>
  /\ storeGetCurrentWeek = 2
  /\ promptsAnsweredThisSession >= 1
  /\ currentPrompt # None
  /\ lastPromptTime = Some(DateNow)
  /\ nextPromptTime = Some(DateNow + 5)

\* C20: a prompt displayed by checkAndShowPrompt(week) is one of
\* getPromptsForWeek(week), and its id is among the ids shown today only
\* when the ids of all prompts of that pool are.
C20_FreshPromptsFirst ==
  [][LET week == storeGetCurrentWeek IN
       (checkAndShowPrompt(week) /\ lastCall'.ret = <<TRUE>>) =>
         LET prompt == currentPrompt'[1]
             pool == getPromptsForWeek(week)
             shown == Range(promptsShownToday)
         IN
         /\ prompt \in pool
         /\ prompt.id \in shown => \A q \in pool : q.id \in shown]_vars

\* All three prompts of the week-10 pool were shown, and the check has
\* displayed one of them again: not the one shown last.
C20_Witness ==
  /\ lastCall.op = "checkAndShowPrompt"
  /\ lastCall.ret = <<TRUE>>
  /\ storeGetCurrentWeek = 10
  /\ \A q \in getPromptsForWeek(10) : q.id \in Range(promptsShownToday)
  /\ Len(promptsShownToday) = 3
  /\ currentPrompt # None
  /\ currentPrompt[1].id # promptsShownToday[3]

\* C21: endWritingSession of the prompts store leaves the session inactive,
\* no prompt displayed and no next prompt scheduled; and while the session is
\* inactive no step displays a prompt, whatever the clock reads, and only
\* startWritingSession makes the session active again.
C21_NoPromptAfterSessionEnd ==
  [][/\ endPromptSession =>
          (~isWritingSessionActive' /\ currentPrompt' = None /\ nextPromptTime' = None)
     /\ ~isWritingSessionActive =>
          /\ currentPrompt' = None
          /\ checkAndShowPrompt(storeGetCurrentWeek) => lastCall'.ret = <<FALSE>>
          /\ isWritingSessionActive' => startPromptSession]_vars

\* A week-2 session in which a prompt was displayed has ended; the time the
\* next prompt had been scheduled for has passed, and the check has returned
\* false.
C21_Witness ==
  /\ lastCall.op = "checkAndShowPrompt"
  /\ lastCall.ret = <<FALSE>>
  /\ storeGetCurrentWeek = 2
  /\ ~isWritingSessionActive
  /\ promptsEnabled
  /\ currentPrompt = None
  /\ nextPromptTime = None
  /\ lastPromptTime # None
  /\ DateNow >= lastPromptTime[1] + 5

\* C24: right after startWritingSession of the prompts store, made in journey
\* week w, nextPromptTime is now + promptInterval(w) when that interval is
\* non-null and null when it is null.
C24_FirstPromptFromJourneyWeek ==
  [][startPromptSession =>
       LET interval == getPromptInterval(storeGetCurrentWeek) IN
       nextPromptTime' = IF interval = None THEN None ELSE Some(DateNow + interval[1])]_vars

\* C30: a prompt is displayed only during an active session.
C30_PromptOnlyInSession == currentPrompt # None => isWritingSessionActive

\* A prompt is displayed in a session started after an earlier session, in
\* which a prompt was answered, had ended.
C30_Witness ==
  /\ currentPrompt # None
  /\ isWritingSessionActive
  /\ totalPromptsAnswered >= 1
  /\ promptsAnsweredThisSession = 0

\* C22: startWritingSession of the prompts store empties promptsShownToday
\* exactly when the date of today differs from _lastResetDate, and then
\* records today; a session start on the recorded date keeps the list, and
\* endWritingSession changes neither the list nor the recorded date.
C22_DailyReset ==
  [][LET today == IsoDate(DateNow) IN
     /\ startPromptSession =>
          /\ lastResetDate # today =>
               (promptsShownToday' = <<>> /\ lastResetDate' = today)
          /\ lastResetDate = today =>
               (promptsShownToday' = promptsShownToday /\ lastResetDate' = today)
     /\ endPromptSession =>
          (promptsShownToday' = promptsShownToday /\ lastResetDate' = lastResetDate)]_vars

\* A session was started on a later date than the one of the latest
\* display: the list is empty and today is recorded.
C22_Witness ==
  /\ isWritingSessionActive
  /\ writingSessionStartTime = Some(DateNow)
  /\ lastPromptTime # None
  /\ IsoDate(lastPromptTime[1]) < IsoDate(DateNow)
  /\ promptsShownToday = <<>>
  /\ lastResetDate = IsoDate(DateNow)

\* A second session was started on the date of the first one, after the
\* first one had ended: the prompt shown in the first is still on the list.
C22_WitnessSameDay ==
  /\ isWritingSessionActive
  /\ writingSessionStartTime = Some(DateNow)
  /\ currentPrompt = None
  /\ lastPromptTime # None
  /\ IsoDate(lastPromptTime[1]) = IsoDate(DateNow)
  /\ lastResetDate = IsoDate(DateNow)
  /\ promptsShownToday # <<>>

\* What a checkPhaseTransition call made now stores in phase and unlocked,
\* and what it returns.
PhaseCheckResult ==
  IF startDate = None \/ devModeEnabled
    THEN <<phase, unlocked, <<>> >>
    ELSE <<calculatePhase(DaysSinceStart), calculateUnlocks(DaysSinceStart),
           getNewUnlocks(getCurrentWeek(DaysSinceStart - 1),
                         getCurrentWeek(DaysSinceStart))>>

\* What a checkAndShowPrompt call made now reads: the week the component
\* passes, the clock and the prompts store.
PromptCheckReads == <<storeGetCurrentWeek, DateNow, promptVars>>

\* C23: checkPhaseTransition changes only phase and unlocked of the progress
\* store, checkAndShowPrompt changes only fields of the prompts store, and
\* neither changes the ledger; a phase check leaves everything the prompt
\* check reads as it was and a prompt check leaves the result of the phase
\* check as it was, so the two checks give the same state in either order.
C23_ChecksCommute ==
  [][/\ checkPhaseTransition =>
          /\ UNCHANGED <<startDate, hasCompletedOnboarding, ledgerVars, dailyStoneGoal,
                         migrationChoice, archivedBooks, devModeEnabled>>
          /\ UNCHANGED promptVars
          /\ <<phase', unlocked', lastCall'.ret>> = PhaseCheckResult
          /\ PromptCheckReads' = PromptCheckReads
     /\ checkAndShowPrompt(storeGetCurrentWeek) =>
          /\ UNCHANGED <<storeVars, nextId>>
          /\ PhaseCheckResult' = PhaseCheckResult]_vars

\* On the first day of week 2 the phase check has moved the journey to the
\* transfer phase and the prompt check has displayed a prompt, the ledger
\* holding the session.
C23_Witness ==
  /\ lastCall.op = "checkAndShowPrompt"
  /\ lastCall.ret = <<TRUE>>
  /\ ~devModeEnabled
  /\ DaysSinceStart = 7
  /\ phase = "transfer"
  /\ unlocked["textEditor"]
  /\ writingSessionsLog # <<>>
  /\ currentPrompt # None

C25_ButtonHeldBack ==
  [][(currentPrompt # None /\ displayedFor < minDisplayTime) =>
       /\ clickContinue => currentPrompt' = currentPrompt
       /\ totalPromptsAnswered' <= totalPromptsAnswered
       /\ promptsAnsweredThisSession' <= promptsAnsweredThisSession]_vars

\* A prompt has been on the screen for a second, the button still disabled;
\* an earlier prompt of the session was dismissed with the button.
C25_ButtonHeldBackWitness ==
  /\ currentPrompt # None
  /\ displayedFor = DisplayStep
  /\ displayedFor < minDisplayTime
  /\ ~canDismiss
  /\ promptsAnsweredThisSession = 1

\* The last minute the clock of the delivery specification reaches.
LastDeliveryMinute == (MaxDeliveryMinute \div QuarterHour) * QuarterHour

\* The scheduled prompt is due before the run is over.
DueInTime == nextPromptTime # None => nextPromptTime[1] <= LastDeliveryMinute

\* C26: in an active session with prompts enabled in a week with a prompt
\* interval (weeks 2..9), with the check called again and again as time
\* advances and every displayed prompt dismissed in the end, whenever no
\* prompt is displayed (and the scheduled time lies within the run) a prompt
\* is displayed later on, unless the session is ended first; also when every
\* prompt of the pool has been shown today.
C26_PromptsKeepComing ==
  (/\ isWritingSessionActive
   /\ promptsEnabled
   /\ storeGetCurrentWeek \in 2..9
   /\ currentPrompt = None
   /\ DueInTime)
    ~> (currentPrompt # None \/ ~isWritingSessionActive \/ ~promptsEnabled)

\* All six prompts of the week-7 pool were shown and dismissed, and the
\* check has displayed one of them again.
C26_Witness ==
  /\ lastCall.op = "checkAndShowPrompt"
  /\ lastCall.ret = <<TRUE>>
  /\ storeGetCurrentWeek = 7
  /\ isWritingSessionActive
  /\ currentPrompt # None
  /\ totalPromptsAnswered >= 6
  /\ \A q \in getPromptsForWeek(7) : q.id \in Range(promptsShownToday)
  /\ lastPromptTime = Some(DateNow)

\* The elapsed days on which a journey week with announcements begins:
\* the first day of weeks 2, 4, 7, 10 and 13.
AnnouncementDays == {7, 21, 42, 63, 84}

\* C27: with a started journey and devModeEnabled false, the week
\* checkPhaseTransition compares with is the current week or the one before
\* it, and the call returns a non-empty list exactly when elapsedDays is 7,
\* 21, 42, 63 or 84, whenever it was called before.
C27_AnnouncedOnFirstDayOfWeek ==
  [][(startDate # None /\ ~devModeEnabled /\ checkPhaseTransition) =>
       LET elapsedDays == now - startDate[1] IN
       /\ getCurrentWeek(elapsedDays) - PreviousWeek(elapsedDays) \in {0, 1}
       /\ (lastCall'.ret # <<>>) <=> (elapsedDays \in AnnouncementDays)]_vars

\* The check was called twice in a row on the first day of week 7, and the
\* second call has returned the two announcements of that week too.
C27_Witness ==
  /\ lastCall.op = "checkPhaseTransition"
  /\ lastCall.again
  /\ startDate # None
  /\ ~devModeEnabled
  /\ now - startDate[1] = 42
  /\ FeatureNames(lastCall.ret) = <<"Unlimited Chapters", "Reflection Workspace">>

\* C28: in every state reached without dev tools in which the stored phase
\* is autonomous, every flag of `unlocked` is true and
\* getMaxChapters(getCurrentWeek()) is null.
C28_AutonomousIsUnlimited ==
  phase = "autonomous" =>
    /\ \A f \in Features : unlocked[f]
    /\ getMaxChapters(storeGetCurrentWeek) = None

\* C29: resetJourney puts phase, startDate, hasCompletedOnboarding, the
\* three logs, unlocked, migrationChoice and archivedBooks back to their
\* initial values and leaves devModeEnabled and dailyStoneGoal as they are;
\* and with devModeEnabled set, before or after a reset, checkPhaseTransition
\* returns the empty list and changes neither phase nor unlocked.
C29_ResetKeepsOverride ==
  [][/\ resetJourney =>
          /\ phase' = "stone"
          /\ startDate' = None
          /\ ~hasCompletedOnboarding'
          /\ stoneSessionsLog' = <<>>
          /\ writingSessionsLog' = <<>>
          /\ resonanceScores' = <<>>
          /\ \A f \in Features : ~unlocked'[f]
          /\ migrationChoice' = None
          /\ archivedBooks' = <<>>
          /\ devModeEnabled' = devModeEnabled
          /\ dailyStoneGoal' = dailyStoneGoal
     /\ (devModeEnabled /\ checkPhaseTransition) =>
          (lastCall'.ret = <<>> /\ phase' = phase /\ unlocked' = unlocked)]_vars

\* The override was set and three records were made before a reset; the
\* journey started after the reset is at the first day of week 2, and the
\* check has returned nothing and left the stone phase in place.
C29_Witness ==
  /\ devModeEnabled
  /\ nextId > MaxResetRecords
  /\ stoneSessionsLog = <<>>
  /\ writingSessionsLog = <<>>
  /\ resonanceScores = <<>>
  /\ migrationChoice = None
  /\ startDate # None
  /\ now - startDate[1] = 7
  /\ lastCall.op = "checkPhaseTransition"
  /\ lastCall.ret = <<>>
  /\ phase = "stone"
  /\ \A f \in Features : ~unlocked[f]

====
